---- MODULE Spec2Model ----
(***************************************************************************)
(* Model of the gravwell CoreDNS plugin (src/gravwell.go): the response    *)
(* interceptor, the text/json encoders, the ServeDNS pipeline and the      *)
(* configuration parser.                                                   *)
(*                                                                         *)
(* Three specifications share the module:                                  *)
(*   Spec     one ServeDNS invocation of a handler, step by step           *)
(*   SpecEnc  the encoders as pure functions over bounded inputs           *)
(*   SpecCfg  parseConfig as a pure function over bounded directive blocks *)
(***************************************************************************)
EXTENDS Integers, Sequences, FiniteSets, TLC

\* ------------------------------------------------------------------------
\* Bounds
\* ------------------------------------------------------------------------
\* longest question section of a message
MaxQ == 2
\* most calls the downstream chain makes on the response writer
MaxWrites == 2
\* most directives in one configuration block
MaxDirectives == 4

\* ------------------------------------------------------------------------
\* Values
\* ------------------------------------------------------------------------
\* a nil error; fmt prints a nil error as <nil>
NoErr == "<nil>"
\* errors of the collaborators
DownErrs == {"context canceled"}
MarshalErr == "json: error calling MarshalText for type net.IP: invalid IP address"
PackErr == "dns: overflow packing"
IngestErr == "ingest: muxer not running"
RwErr == "write: broken pipe"

\* dns status codes the downstream chain returns (RcodeSuccess, RcodeServerFailure)
Rcodes == {0, 2}

\* dns.Question values and dns.RR values
QNames == {"a.example.", "b.example."}
MkQ(n) == [Name |-> n, Qtype |-> "A"]
Questions == {MkQ(n) : n \in QNames}
MkRR(n, d) == [Name |-> n, Rrtype |-> "A", Rdata |-> d]
MkCNAME(n, d) == [Name |-> n, Rrtype |-> "CNAME", Rdata |-> d]
RRs ==
  {MkRR("a.example.", "93.184.216.34"), MkRR("b.example.", "192.0.2.7"),
   MkCNAME("a.example.", "b.example.")}

\* all sequences over S of length at most n
SeqsUpTo(S, n) == UNION {[1..k -> S] : k \in 0..n}

\* a dns.Msg: its question and answer sections
Msg(q, a) == [Question |-> q, Answer |-> a]

\* dns.Question.String() and dns.RR.String(), as token sequences
QString(q) == <<";", q.Name, "IN", q.Qtype>>
RRString(rr) == <<rr.Name, "300", "IN", rr.Rrtype, rr.Rdata>>

\* dns.Msg.Pack(): the wire form of the whole message, section by section
QWire(q) == <<q.Name, q.Qtype>>
RRWire(rr) == <<rr.Name, rr.Rrtype, rr.Rdata>>
RECURSIVE QSection(_)
QSection(s) == IF s = <<>> THEN <<>> ELSE QWire(Head(s)) \o QSection(Tail(s))
RECURSIVE RRSection(_)
RRSection(s) == IF s = <<>> THEN <<>> ELSE RRWire(Head(s)) \o RRSection(Tail(s))
Pack(m) == <<"QD">> \o QSection(m.Question) \o <<"AN">> \o RRSection(m.Answer)

\* ------------------------------------------------------------------------
\* Record payloads ([]byte).  form says how the bytes were produced:
\*   text  "<ts> <proto> <local> <remote> <dt>"
\*   json  a marshalled dnsAnswer / dnsQuestion / errAnswer object
\*   diag  an inline diagnostic line
\*   wire  packed DNS message
\*   nil   a nil byte slice
\* ------------------------------------------------------------------------
Payload(form, ts, proto, local, remote, body, error) ==
  [form |-> form, TS |-> ts, Proto |-> proto, Local |-> local, Remote |-> remote,
   body |-> body, Error |-> error]

TextLine(ts, local, remote, dt) ==
  Payload("text", ts, local.network, local.addr, remote.addr, dt, "")

\* json.Marshal(dnsAnswer{dnsBase, Question: rr})
JSONAnswer(ts, local, remote, rr) ==
  Payload("json", ts, local.network, local.addr, remote.addr,
          <<"Question">> \o RRWire(rr), "")

\* json.Marshal(dnsQuestion{dnsBase, Question{Hdr: q}})
JSONQuestion(ts, local, remote, q) ==
  Payload("json", ts, local.network, local.addr, remote.addr,
          <<"Question", "Hdr">> \o QWire(q), "")

\* json.Marshal(errAnswer{TS, Proto, Local, Remote, Question: q, Error})
JSONErrAnswer(ts, local, remote, q, e) ==
  Payload("json", ts, local.network, local.addr, remote.addr,
          <<"Question">> \o QWire(q), e)

\* fmt.Sprintf("%s ERROR JSON marshal: %v", ts, err)
MarshalDiag(ts, e) == Payload("diag", ts, "", "", "", <<"ERROR JSON marshal:">>, e)

\* fmt.Sprintf("ERROR: Failed to pack DNS response: %v", err)
PackDiag(e) == Payload("diag", 0, "", "", "", <<"ERROR: Failed to pack DNS response:">>, e)

WireBytes(m) == Payload("wire", 0, "", "", "", Pack(m), "")
NilBytes == Payload("nil", 0, "", "", "", <<>>, "")

\* ------------------------------------------------------------------------
\* Encoders.  fails is the set of indices whose json.Marshal call fails.
\* ------------------------------------------------------------------------
\* mutant of Pairing: the bound test is off by one
PairingOffByOne(q, a, i) == IF i < Len(a) THEN "answer" ELSE "question"

\* the value the loop of Encode describes at index i
Pairing(q, a, i) == IF i <= Len(a) THEN "answer" ELSE "question"

textEncode(ts, local, remote, q, a) ==
  [i \in 1..Len(q) |->
     TextLine(ts, local, remote,
              IF Pairing(q, a, i) = "answer" THEN RRString(a[i]) ELSE QString(q[i]))]

textEncodeError(ts, local, remote, msg, e) ==
  [i \in 1..Len(msg.Question) |-> TextLine(ts, local, remote, QString(msg.Question[i]))]

jsonEncode(ts, local, remote, q, a, fails) ==
  [i \in 1..Len(q) |->
     IF i \in fails THEN MarshalDiag(ts, MarshalErr)
     ELSE IF Pairing(q, a, i) = "question" THEN JSONQuestion(ts, local, remote, q[i])
     ELSE JSONAnswer(ts, local, remote, a[i])]

jsonEncodeError(ts, local, remote, msg, e, fails) ==
  [i \in 1..Len(msg.Question) |->
     IF i \in fails THEN MarshalDiag(ts, MarshalErr)
     ELSE JSONErrAnswer(ts, local, remote, msg.Question[i], e)]

\* mutant of Encode: the answers past the last question get Records of their own
EncodeSurplus(enc, ts, local, remote, q, a, fails) ==
  IF enc = "text"
    THEN textEncode(ts, local, remote, q, a)
           \o [j \in 1..(Len(a) - Len(q)) |-> TextLine(ts, local, remote, RRString(a[Len(q) + j]))]
    ELSE jsonEncode(ts, local, remote, q, a, fails)
           \o [j \in 1..(Len(a) - Len(q)) |-> JSONAnswer(ts, local, remote, a[Len(q) + j])]

\* dispatch on the encoder held by the handler
Encode(enc, ts, local, remote, q, a, fails) ==
  IF enc = "text" THEN textEncode(ts, local, remote, q, a)
  ELSE jsonEncode(ts, local, remote, q, a, fails)

EncodeError(enc, ts, local, remote, msg, e, fails) ==
  IF enc = "text" THEN textEncodeError(ts, local, remote, msg, e)
  ELSE jsonEncodeError(ts, local, remote, msg, e, fails)

\* ------------------------------------------------------------------------
\* State
\* ------------------------------------------------------------------------
\* ServeDNS invocations (one goroutine each) and the connection each serves
Txn == {"t1", "t2"}
LocalAddr(t) == [network |-> "udp", addr |-> "10.0.0.1:53"]
RemoteAddr(t) ==
  [network |-> "udp", addr |-> IF t = "t1" THEN "192.0.2.5:51000" ELSE "192.0.2.9:40000"]

\* the handler's encoder: nil (native packing), text or json
Encoders == {"nil", "text", "json"}

\* requests the server hands to ServeDNS, messages the downstream chain writes
\* (n questions, alternating over the two names; k answers likewise; a response
\* answers all of its questions or all but the last)
QPre(n) == [i \in 1..n |-> MkQ(IF i % 2 = 1 THEN "a.example." ELSE "b.example.")]
APre(k) ==
  [i \in 1..k |-> IF i % 2 = 1 THEN MkRR("a.example.", "93.184.216.34")
                                ELSE MkRR("b.example.", "192.0.2.7")]
Requests == {Msg(QPre(n), <<>>) : n \in 0..MaxQ}
Responses == UNION {{Msg(QPre(n), APre(k)) : k \in {n - 1, n} \ {-1}} : n \in 0..MaxQ}
RawBytes == {"raw"}
NoMsg == Msg(<<>>, <<>>)

VARIABLES
  gh,        \* the handler: [enc, tag]
  now,       \* the clock entry.Now() reads
  pc,        \* pc[t]: where invocation t stands
  r,         \* r[t]: the request message
  ts,        \* ts[t]: the transaction timestamp
  is,        \* is[t]: the introspector's captured fields [q, a]
  calls,     \* calls[t]: the calls the downstream chain made on the writer it was given
  rwLog,     \* rwLog[t]: the calls that reached the real response writer
  wret,      \* wret[t]: the last call's result: [rw: the real writer's, is: the introspector's]
  c,         \* c[t], err[t], lerr[t]: the locals of ServeDNS
  err,
  lerr,
  dret,      \* dret[t]: what Next.ServeDNS returned
  ser,       \* ser[t]: how serialization went: [fails: indices whose Marshal failed, packOk]
  bbs,       \* bbs[t]: the Records
  sent,      \* sent[t]: the im.Write calls, in order, with their results
  ret,       \* ret[t]: what ServeDNS returned
  encIn,     \* inputs of the encoder run (SpecEnc)
  encOut,    \* its outputs
  cfgIn,     \* the configuration block (SpecCfg)
  cfgOut     \* what parseConfig returned

hvars == <<gh, now, pc, r, ts, is, calls, rwLog, wret, c, err, lerr, dret, ser, bbs, sent, ret>>
evars == <<encIn, encOut>>
cvars == <<cfgIn, cfgOut>>
vars == <<hvars, evars, cvars>>

NoRet == [c |-> -1, err |-> NoErr]
NoIs == [q |-> <<>>, a |-> <<>>]

\* ------------------------------------------------------------------------
\* The introspector
\* ------------------------------------------------------------------------
\* a call on a response writer
WriteMsgCall(m) == [op |-> "WriteMsg", msg |-> m, b |-> ""]
WriteCall(b) == [op |-> "Write", msg |-> NoMsg, b |-> b]

\* mutant of isWriteMsg: the wrapped writer's error is not returned
isWriteMsgSwallowing(i, m, res) ==
  [is |-> [q |-> m.Question, a |-> m.Answer], fwd |-> m, ret |-> NoErr]

\* mutant of isWriteMsg: the sections are captured once the wrapped writer has
\* accepted the message
isWriteMsgOnSuccess(i, m, res) ==
  [is |-> IF res = NoErr THEN [q |-> m.Question, a |-> m.Answer] ELSE i,
   fwd |-> m, ret |-> res]

\* introspector.WriteMsg, the wrapped writer returning res: the fields after the
\* call, the message handed on and the error returned
isWriteMsg(i, m, res) == [is |-> [q |-> m.Question, a |-> m.Answer], fwd |-> m, ret |-> res]
\* introspector.Write, likewise
isWrite(i, b, res) == [is |-> i, fwd |-> b, ret |-> res]

\* ------------------------------------------------------------------------
\* ServeDNS
\* ------------------------------------------------------------------------
\* the native branch: bb, lerr = r.Pack(); the guard tests err
nativeRecord(req, e, packOk) ==
  IF e # NoErr THEN PackDiag(e)
  ELSE IF packOk THEN WireBytes(req) ELSE NilBytes

\* mutant of Records: the captured sections are encoded whatever err is
RecordsFromCapture(enc, t0, local, remote, req, i, e, fails, packOk) ==
  IF enc = "nil" THEN <<nativeRecord(req, e, packOk)>>
  ELSE Encode(enc, t0, local, remote, i.q, i.a, fails)

\* mutant of Records: with nothing captured, the questions of the request are
\* encoded
RecordsFallingBack(enc, t0, local, remote, req, i, e, fails, packOk) ==
  IF enc = "nil" THEN <<nativeRecord(req, e, packOk)>>
  ELSE IF e # NoErr THEN EncodeError(enc, t0, local, remote, req, e, fails)
  ELSE Encode(enc, t0, local, remote, IF i.q = <<>> THEN req.Question ELSE i.q, i.a, fails)

\* the Records of one transaction (the branch on gh.enc and err)
Records(enc, t0, local, remote, req, i, e, fails, packOk) ==
  IF enc = "nil" THEN <<nativeRecord(req, e, packOk)>>
  ELSE IF e # NoErr THEN EncodeError(enc, t0, local, remote, req, e, fails)
  ELSE Encode(enc, t0, local, remote, i.q, i.a, fails)

\* how many json.Marshal calls the branch makes
Marshals(enc, req, i, e) ==
  IF enc # "json" THEN 0
  ELSE IF e # NoErr THEN Len(req.Question) ELSE Len(i.q)

\* the entry im.Write is given
Entry(t0, tag, bb) == [TS |-> t0, Tag |-> tag, Data |-> bb]

\* mutant of Returned: the submission error is returned in place of err
ReturnedSurfacing(code, e, le) == [c |-> code, err |-> IF le # NoErr THEN le ELSE e]

\* mutant of Returned: a failed submission turns the status into SERVFAIL
ReturnedServFail(code, e, le) == [c |-> IF le # NoErr THEN 2 ELSE code, err |-> e]

\* the named results ServeDNS returns
Returned(code, e, le) == [c |-> code, err |-> e]

\* ServeDNS is entered: ts, the introspector around rw
Call(t, req) ==
  /\ pc[t] = "idle"
  /\ pc' = [pc EXCEPT ![t] = "downstream"]
  /\ r' = [r EXCEPT ![t] = req]
  /\ ts' = [ts EXCEPT ![t] = now]
  /\ now' = now + 1
  /\ is' = [is EXCEPT ![t] = NoIs]
  /\ UNCHANGED <<gh, calls, rwLog, wret, c, err, lerr, dret, ser, bbs, sent, ret>>

\* mutant of DownWriteMsg: the submission loop runs while the chain still writes
DownWriteMsgLate(t, m, res) ==
  /\ pc[t] \in {"downstream", "submit"}
  /\ Len(calls[t]) < MaxWrites
  /\ LET w == isWriteMsg(is[t], m, res) IN
       /\ is' = [is EXCEPT ![t] = w.is]
       /\ rwLog' = [rwLog EXCEPT ![t] = Append(@, WriteMsgCall(w.fwd))]
       /\ wret' = [wret EXCEPT ![t] = [rw |-> res, is |-> w.ret]]
  /\ calls' = [calls EXCEPT ![t] = Append(@, WriteMsgCall(m))]
  /\ UNCHANGED <<gh, now, pc, r, ts, c, err, lerr, dret, ser, bbs, sent, ret>>

\* the downstream chain calls WriteMsg on the writer it was given
DownWriteMsg(t, m, res) ==
  /\ pc[t] = "downstream"
  /\ Len(calls[t]) < MaxWrites
  /\ LET w == isWriteMsg(is[t], m, res) IN
       /\ is' = [is EXCEPT ![t] = w.is]
       /\ rwLog' = [rwLog EXCEPT ![t] = Append(@, WriteMsgCall(w.fwd))]
       /\ wret' = [wret EXCEPT ![t] = [rw |-> res, is |-> w.ret]]
  /\ calls' = [calls EXCEPT ![t] = Append(@, WriteMsgCall(m))]
  /\ UNCHANGED <<gh, now, pc, r, ts, c, err, lerr, dret, ser, bbs, sent, ret>>

\* the downstream chain calls Write on the writer it was given
DownWrite(t, b, res) ==
  /\ pc[t] = "downstream"
  /\ Len(calls[t]) < MaxWrites
  /\ LET w == isWrite(is[t], b, res) IN
       /\ is' = [is EXCEPT ![t] = w.is]
       /\ rwLog' = [rwLog EXCEPT ![t] = Append(@, WriteCall(w.fwd))]
       /\ wret' = [wret EXCEPT ![t] = [rw |-> res, is |-> w.ret]]
  /\ calls' = [calls EXCEPT ![t] = Append(@, WriteCall(b))]
  /\ UNCHANGED <<gh, now, pc, r, ts, c, err, lerr, dret, ser, bbs, sent, ret>>

\* mutant of DownReturn: a chain that returned an error is called once more
DownReturnRetrying(t, code, e) ==
  /\ pc[t] = "downstream"
  /\ pc' = [pc EXCEPT ![t] = IF e # NoErr /\ dret[t].c = -1 THEN "downstream" ELSE "encode"]
  /\ c' = [c EXCEPT ![t] = code]
  /\ err' = [err EXCEPT ![t] = e]
  /\ dret' = [dret EXCEPT ![t] = [c |-> code, err |-> e]]
  /\ UNCHANGED <<gh, now, r, ts, is, calls, rwLog, wret, lerr, ser, bbs, sent, ret>>

\* Next.ServeDNS returns
DownReturn(t, code, e) ==
  /\ pc[t] = "downstream"
  /\ pc' = [pc EXCEPT ![t] = "encode"]
  /\ c' = [c EXCEPT ![t] = code]
  /\ err' = [err EXCEPT ![t] = e]
  /\ dret' = [dret EXCEPT ![t] = [c |-> code, err |-> e]]
  /\ UNCHANGED <<gh, now, r, ts, is, calls, rwLog, wret, lerr, ser, bbs, sent, ret>>

\* the branch that builds bbs
EncodeStep(t, fails, packOk) ==
  /\ pc[t] = "encode"
  /\ fails \subseteq 1..Marshals(gh.enc, r[t], is[t], err[t])
  /\ gh.enc # "nil" => packOk
  /\ pc' = [pc EXCEPT ![t] = "submit"]
  /\ bbs' = [bbs EXCEPT ![t] =
       Records(gh.enc, ts[t], LocalAddr(t), RemoteAddr(t), r[t], is[t], err[t], fails, packOk)]
  /\ lerr' = [lerr EXCEPT ![t] = IF packOk THEN NoErr ELSE PackErr]
  /\ ser' = [ser EXCEPT ![t] = [fails |-> fails, packOk |-> packOk]]
  /\ UNCHANGED <<gh, now, r, ts, is, calls, rwLog, wret, c, err, dret, sent, ret>>

\* mutant of Submit: a failed im.Write does not end the loop
SubmitContinue(t, res) ==
  /\ pc[t] = "submit"
  /\ Len(sent[t]) < Len(bbs[t])
  /\ LET bb == bbs[t][Len(sent[t]) + 1] IN
       sent' = [sent EXCEPT ![t] = Append(@, [e |-> Entry(ts[t], gh.tag, bb), res |-> res])]
  /\ lerr' = [lerr EXCEPT ![t] = res]
  /\ UNCHANGED <<pc, ret>>
  /\ UNCHANGED <<gh, now, r, ts, is, calls, rwLog, wret, c, err, dret, ser, bbs>>

\* mutant of Submit: the timestamp is the one taken by the latest invocation,
\* as if ts were kept in the handler
SubmitSharedTs(t, res) ==
  /\ pc[t] = "submit"
  /\ Len(sent[t]) < Len(bbs[t])
  /\ LET bb == bbs[t][Len(sent[t]) + 1] IN
       sent' = [sent EXCEPT ![t] = Append(@, [e |-> Entry(now - 1, gh.tag, bb), res |-> res])]
  /\ lerr' = [lerr EXCEPT ![t] = res]
  /\ IF res # NoErr
       THEN /\ pc' = [pc EXCEPT ![t] = "done"]
            /\ ret' = [ret EXCEPT ![t] = Returned(c[t], err[t], res)]
       ELSE UNCHANGED <<pc, ret>>
  /\ UNCHANGED <<gh, now, r, ts, is, calls, rwLog, wret, c, err, dret, ser, bbs>>

\* one iteration of the submission loop: im.Write returns res
Submit(t, res) ==
  /\ pc[t] = "submit"
  /\ Len(sent[t]) < Len(bbs[t])
  /\ LET bb == bbs[t][Len(sent[t]) + 1] IN
       sent' = [sent EXCEPT ![t] = Append(@, [e |-> Entry(ts[t], gh.tag, bb), res |-> res])]
  /\ lerr' = [lerr EXCEPT ![t] = res]
  /\ IF res # NoErr
       THEN /\ pc' = [pc EXCEPT ![t] = "done"]
            /\ ret' = [ret EXCEPT ![t] = Returned(c[t], err[t], res)]
       ELSE UNCHANGED <<pc, ret>>
  /\ UNCHANGED <<gh, now, r, ts, is, calls, rwLog, wret, c, err, dret, ser, bbs>>

\* the loop is over: the final return
Return(t) ==
  /\ pc[t] = "submit"
  /\ Len(sent[t]) = Len(bbs[t])
  /\ pc' = [pc EXCEPT ![t] = "done"]
  /\ ret' = [ret EXCEPT ![t] = Returned(c[t], err[t], lerr[t])]
  /\ UNCHANGED <<gh, now, r, ts, is, calls, rwLog, wret, c, err, lerr, dret, ser, bbs, sent>>

\* no invocation has begun
InitTxn ==
  /\ now = 1
  /\ pc = [t \in Txn |-> "idle"]
  /\ r = [t \in Txn |-> NoMsg]
  /\ ts = [t \in Txn |-> 0]
  /\ is = [t \in Txn |-> NoIs]
  /\ calls = [t \in Txn |-> <<>>]
  /\ rwLog = [t \in Txn |-> <<>>]
  /\ wret = [t \in Txn |-> [rw |-> NoErr, is |-> NoErr]]
  /\ c = [t \in Txn |-> 0]
  /\ err = [t \in Txn |-> NoErr]
  /\ lerr = [t \in Txn |-> NoErr]
  /\ dret = [t \in Txn |-> NoRet]
  /\ ser = [t \in Txn |-> [fails |-> {}, packOk |-> TRUE]]
  /\ bbs = [t \in Txn |-> <<>>]
  /\ sent = [t \in Txn |-> <<>>]
  /\ ret = [t \in Txn |-> NoRet]

\* a handler as setup may build it, or with a nil encoder
InitH ==
  /\ gh \in [enc : Encoders, tag : {1}]
  /\ InitTxn

NoOut == [op |-> "none", bb |-> <<>>]
InitE == encIn = <<>> /\ encOut = NoOut
InitC == cfgIn = <<>> /\ cfgOut = <<>>

Init == InitH /\ InitE /\ InitC

\* one invocation, any request, any downstream behaviour, any delivery outcome
Next ==
  \E t \in {"t1"} :
    \/ \E req \in Requests : Call(t, req) /\ UNCHANGED <<evars, cvars>>
    \/ \E m \in Responses, res \in {NoErr, RwErr} :
         DownWriteMsg(t, m, res) /\ UNCHANGED <<evars, cvars>>
    \/ \E b \in RawBytes, res \in {NoErr, RwErr} :
         DownWrite(t, b, res) /\ UNCHANGED <<evars, cvars>>
    \/ \E code \in Rcodes, e \in DownErrs \cup {NoErr} :
         DownReturn(t, code, e) /\ UNCHANGED <<evars, cvars>>
    \/ \E fails \in SUBSET (1..MaxQ), packOk \in BOOLEAN :
         EncodeStep(t, fails, packOk) /\ UNCHANGED <<evars, cvars>>
    \/ \E res \in {NoErr, IngestErr} : Submit(t, res) /\ UNCHANGED <<evars, cvars>>
    \/ Return(t) /\ UNCHANGED <<evars, cvars>>

Spec == Init /\ [][Next]_vars

\* ------------------------------------------------------------------------
\* Two invocations on one handler, interleaved in every way (SpecPair).  The
\* requests and responses are few; delivery and serialization outcomes are
\* free in each invocation.
\* ------------------------------------------------------------------------
PairRequests == {Msg(QPre(1), <<>>)}
PairResponses == {Msg(QPre(1), APre(1))}
PairWrites == MaxWrites - 1

NextPair ==
  \E t \in Txn :
    \/ \E req \in PairRequests : Call(t, req) /\ UNCHANGED <<evars, cvars>>
    \/ \E m \in PairResponses, res \in {NoErr, RwErr} :
         /\ Len(calls[t]) < PairWrites
         /\ DownWriteMsg(t, m, res) /\ UNCHANGED <<evars, cvars>>
    \/ \E b \in RawBytes, res \in {NoErr, RwErr} :
         /\ Len(calls[t]) < PairWrites
         /\ DownWrite(t, b, res) /\ UNCHANGED <<evars, cvars>>
    \/ \E code \in Rcodes, e \in DownErrs \cup {NoErr} :
         DownReturn(t, code, e) /\ UNCHANGED <<evars, cvars>>
    \/ \E fails \in SUBSET (1..MaxQ), packOk \in BOOLEAN :
         EncodeStep(t, fails, packOk) /\ UNCHANGED <<evars, cvars>>
    \/ \E res \in {NoErr, IngestErr} : Submit(t, res) /\ UNCHANGED <<evars, cvars>>
    \/ Return(t) /\ UNCHANGED <<evars, cvars>>

SpecPair == Init /\ [][NextPair]_vars

\* ------------------------------------------------------------------------
\* One invocation whose calls return (SpecFair): the downstream call returns
\* and every step of ServeDNS after it is taken, the calls of one goroutine
\* following one another.  The chain makes fewer writes than in Spec.
\* ------------------------------------------------------------------------
NextFair ==
  \E t \in {"t1"} :
    \/ \E req \in Requests : Call(t, req) /\ UNCHANGED <<evars, cvars>>
    \/ \E m \in Responses, res \in {NoErr, RwErr} :
         /\ Len(calls[t]) < PairWrites
         /\ DownWriteMsg(t, m, res) /\ UNCHANGED <<evars, cvars>>
    \/ \E b \in RawBytes, res \in {NoErr, RwErr} :
         /\ Len(calls[t]) < PairWrites
         /\ DownWrite(t, b, res) /\ UNCHANGED <<evars, cvars>>
    \/ \E code \in Rcodes, e \in DownErrs \cup {NoErr} :
         DownReturn(t, code, e) /\ UNCHANGED <<evars, cvars>>
    \/ \E fails \in SUBSET (1..MaxQ), packOk \in BOOLEAN :
         EncodeStep(t, fails, packOk) /\ UNCHANGED <<evars, cvars>>
    \/ \E res \in {NoErr, IngestErr} : Submit(t, res) /\ UNCHANGED <<evars, cvars>>
    \/ Return(t) /\ UNCHANGED <<evars, cvars>>

Fairness ==
  /\ WF_vars(\E code \in Rcodes, e \in DownErrs \cup {NoErr} :
               DownReturn("t1", code, e) /\ UNCHANGED <<evars, cvars>>)
  /\ WF_vars(\E fails \in SUBSET (1..MaxQ), packOk \in BOOLEAN :
               EncodeStep("t1", fails, packOk) /\ UNCHANGED <<evars, cvars>>)
  /\ WF_vars(\E res \in {NoErr, IngestErr} : Submit("t1", res) /\ UNCHANGED <<evars, cvars>>)
  /\ WF_vars(Return("t1") /\ UNCHANGED <<evars, cvars>>)

SpecFair == Init /\ [][NextFair]_vars /\ Fairness

\* ------------------------------------------------------------------------
\* Two invocations on one handler, each with a request and a response of its
\* own, interleaved in every way (SpecIso).  The chain writes messages only.
\* ------------------------------------------------------------------------
IsoName(t) == IF t = "t1" THEN "a.example." ELSE "b.example."
IsoRequest(t) == Msg(<<MkQ(IsoName(t))>>, <<>>)
IsoResponse(t) ==
  Msg(<<MkQ(IsoName(t))>>,
      <<MkRR(IsoName(t), IF t = "t1" THEN "93.184.216.34" ELSE "192.0.2.7")>>)

NextIso ==
  \E t \in Txn :
    \/ Call(t, IsoRequest(t)) /\ UNCHANGED <<evars, cvars>>
    \/ \E res \in {NoErr, RwErr} :
         /\ Len(calls[t]) < PairWrites
         /\ DownWriteMsg(t, IsoResponse(t), res) /\ UNCHANGED <<evars, cvars>>
    \/ \E code \in Rcodes, e \in DownErrs \cup {NoErr} :
         DownReturn(t, code, e) /\ UNCHANGED <<evars, cvars>>
    \/ \E fails \in SUBSET (1..MaxQ), packOk \in BOOLEAN :
         EncodeStep(t, fails, packOk) /\ UNCHANGED <<evars, cvars>>
    \/ \E res \in {NoErr, IngestErr} : Submit(t, res) /\ UNCHANGED <<evars, cvars>>
    \/ Return(t) /\ UNCHANGED <<evars, cvars>>

SpecIso == Init /\ [][NextIso]_vars

\* ------------------------------------------------------------------------
\* The encoders alone (SpecEnc): Init draws the inputs, the actions apply
\* Encode and EncodeError of the handler's encoder.
\* ------------------------------------------------------------------------
EncInputs ==
  [ts : {1, 2}, t : {"t1"}, q : SeqsUpTo(Questions, MaxQ), a : SeqsUpTo(RRs, MaxQ + 1),
   e : DownErrs, fails : SUBSET (1..MaxQ)]

InitEnc ==
  /\ InitH /\ InitC
  /\ gh.enc \in {"text", "json"}
  /\ encIn \in {x \in EncInputs :
                  x.fails \subseteq (IF gh.enc = "json" THEN 1..Len(x.q) ELSE {})}
  /\ encOut = NoOut

RunEncode ==
  /\ encOut = NoOut
  /\ encOut' = [op |-> "Encode",
                bb |-> Encode(gh.enc, encIn.ts, LocalAddr(encIn.t), RemoteAddr(encIn.t),
                              encIn.q, encIn.a, encIn.fails)]
  /\ UNCHANGED <<encIn, hvars, cvars>>

RunEncodeError ==
  /\ encOut = NoOut
  /\ encOut' = [op |-> "EncodeError",
                bb |-> EncodeError(gh.enc, encIn.ts, LocalAddr(encIn.t), RemoteAddr(encIn.t),
                                   Msg(encIn.q, encIn.a), encIn.e, encIn.fails)]
  /\ UNCHANGED <<encIn, hvars, cvars>>

NextEnc == RunEncode \/ RunEncodeError

SpecEnc == InitEnc /\ [][NextEnc]_vars

\* ------------------------------------------------------------------------
\* parseConfig (SpecCfg)
\* ------------------------------------------------------------------------
\* a line of the block: the directive token and the tokens after it
Line(name, args) == [name |-> name, args |-> args]

\* strings.ToLower and strings.TrimSpace on the strings that occur
ToLower(v) ==
  CASE v = "Ingest-Secret" -> "ingest-secret"
    [] v = "Cleartext-Target" -> "cleartext-target"
    [] v = "Ciphertext-Target" -> "ciphertext-target"
    [] v = "Max-Cache-Size-MB" -> "max-cache-size-mb"
    [] v = "Ingest-Cache-Path" -> "ingest-cache-path"
    [] v = "Tag" -> "tag"
    [] v = "Encoding" -> "encoding"
    [] v = "Write-Timeout" -> "write-timeout"
    [] v = "Text" -> "text"
    [] OTHER -> v
TrimSpace(v) ==
  CASE v = " json " -> "json"
    [] v = " text " -> "text"
    [] OTHER -> v
\* filepath.Clean
Clean(v) == IF v = "" THEN "." ELSE v

\* strconv.Atoi
Atoi(v) ==
  CASE v = "1024" -> [v |-> 1024, err |-> NoErr]
    [] v = "0" -> [v |-> 0, err |-> NoErr]
    [] v = "-1" -> [v |-> -1, err |-> NoErr]
    [] OTHER -> [v |-> 0, err |-> "strconv.Atoi: parsing: invalid syntax"]

\* net.SplitHostPort: the error it returns
SplitHostPort(v) ==
  IF v \in {"192.168.1.1:4024", "192.168.1.2:4024"} THEN NoErr
  ELSE "missing port in address"

\* ingest.CheckTag: the error it returns
CheckTag(v) == IF v \in {"dns", "custom"} THEN NoErr ELSE "invalid tag"

defaultTag == "dns"

\* getEncoder: the encoder ("nil" is a nil encoder) and the error
getEncoder(v) ==
  LET t == TrimSpace(ToLower(v)) IN
  CASE t = "text" -> [enc |-> "text", err |-> NoErr]
    [] t \in {"json", ""} -> [enc |-> "json", err |-> NoErr]
    [] OTHER -> [enc |-> "nil", err |-> "Unknown encoding type"]

\* getArgLine: name, value and error of one line
getArgLine(l) ==
  [name |-> ToLower(l.name),
   value |-> IF l.args = <<>> THEN l.name ELSE l.args[1],
   err |-> IF l.args = <<>> THEN "Missing argument"
           ELSE IF Len(l.args) > 1 THEN "only takes one argument"
           ELSE NoErr]

\* conf, enc and err as parseConfig enters its loop; done says it has returned
ParseStart ==
  [conf |-> [Log_Level |-> "INFO", Cache_Mode |-> "", Ingest_Cache_Path |-> "",
             Max_Ingest_Cache |-> 0, Cache_Depth |-> 0, Ingest_Secret |-> "",
             Cleartext_Backend_Target |-> <<>>, Encrypted_Backend_Target |-> <<>>,
             Tag |-> "", Encoder |-> ""],
   enc |-> "nil", err |-> NoErr, done |-> FALSE]

\* the early return of the loop body, with error e
Fail(st, e) == [st EXCEPT !.err = e, !.done = TRUE]

\* one iteration of the loop: getArgLine, then the switch on the directive
ParseLine(st, l) ==
  LET al == getArgLine(l)
      val == al.value
  IN
  IF al.err # NoErr THEN Fail(st, al.err)
  ELSE CASE al.name = "ingest-cache-path" ->
              [st EXCEPT !.err = NoErr, !.conf.Cache_Mode = "always",
                         !.conf.Ingest_Cache_Path = Clean(val)]
         [] al.name = "max-cache-size-mb" ->
              LET n == Atoi(val) IN
              [st EXCEPT !.err = IF n.err # NoErr \/ n.v < 0
                                   THEN "Invalid max cache size" ELSE NoErr,
                         !.conf.Max_Ingest_Cache = n.v * 1024 * 1024]
         [] al.name = "ingest-secret" ->
              [st EXCEPT !.err = NoErr, !.conf.Ingest_Secret = val]
         [] al.name = "cleartext-target" ->
              IF SplitHostPort(val) # NoErr THEN Fail(st, SplitHostPort(val))
              ELSE [st EXCEPT !.err = NoErr,
                              !.conf.Cleartext_Backend_Target = Append(@, val)]
         [] al.name = "ciphertext-target" ->
              IF SplitHostPort(val) # NoErr THEN Fail(st, SplitHostPort(val))
              ELSE [st EXCEPT !.err = NoErr,
                              !.conf.Encrypted_Backend_Target = Append(@, val)]
         [] al.name = "tag" ->
              IF CheckTag(val) # NoErr THEN Fail(st, "invalid tag")
              ELSE [st EXCEPT !.err = NoErr, !.conf.Tag = val]
         [] al.name = "encoding" ->
              LET g == getEncoder(val) IN
              IF g.err # NoErr THEN [Fail(st, g.err) EXCEPT !.enc = g.enc]
              ELSE [st EXCEPT !.err = NoErr, !.enc = g.enc]
         [] OTHER -> Fail(st, "Unknown gravwell configuration directive")

\* the loop over the lines of the block
RECURSIVE ParseLines(_, _)
ParseLines(st, ls) ==
  IF ls = <<>> \/ st.done THEN st ELSE ParseLines(ParseLine(st, Head(ls)), Tail(ls))

\* the validations after the loop, in order
CheckCache(st) ==
  IF (st.conf.Cache_Depth > 0 \/ st.conf.Max_Ingest_Cache > 0) /\ st.conf.Ingest_Cache_Path = ""
    THEN [st EXCEPT !.err = "Max-Cache-Size-MB may not be set without an active cache location"]
    ELSE st
\* mutant of DefaultTag: an absent tag is left empty
DefaultTagSkipped(st) == st
DefaultTag(st) == IF st.conf.Tag = "" THEN [st EXCEPT !.conf.Tag = defaultTag] ELSE st
CheckTargets(st) ==
  IF Len(st.conf.Cleartext_Backend_Target) = 0 /\ Len(st.conf.Encrypted_Backend_Target) = 0
    THEN [st EXCEPT !.err = "Invalid targets, at least one must be specified"]
    ELSE st
\* mutant of CheckSecret: the validation assigns its verdict to err either way
CheckSecretAssigning(st) ==
  [st EXCEPT !.err = IF st.conf.Ingest_Secret = ""
                       THEN "Invalid Ingest-Auth.  An auth token is required" ELSE NoErr]
CheckSecret(st) ==
  IF st.conf.Ingest_Secret = ""
    THEN [st EXCEPT !.err = "Invalid Ingest-Auth.  An auth token is required"]
    ELSE st
DefaultEncoder(st) ==
  LET e == IF st.enc = "nil" THEN "json" ELSE st.enc IN
  [st EXCEPT !.enc = e, !.conf.Encoder = e]

\* parseConfig: (conf, enc, err) for the lines of a block
parseConfig(ls) ==
  LET st == ParseLines(ParseStart, ls) IN
  IF st.done THEN st
  ELSE [DefaultEncoder(CheckSecret(CheckTargets(DefaultTag(CheckCache(st)))))
          EXCEPT !.done = TRUE]

\* the lines a block is made of
Lines ==
  {Line("Ingest-Secret", <<"testing">>),
   Line("Cleartext-Target", <<"192.168.1.1:4024">>),
   Line("Cleartext-Target", <<"192.168.1.1">>),
   Line("Ciphertext-Target", <<"192.168.1.2:4024">>),
   Line("Max-Cache-Size-MB", <<"1024">>),
   Line("Max-Cache-Size-MB", <<"0">>),
   Line("Max-Cache-Size-MB", <<"-1">>),
   Line("Max-Cache-Size-MB", <<"abc">>),
   Line("Ingest-Cache-Path", <<"/tmp/dns.cache">>),
   Line("Tag", <<"custom">>),
   Line("Tag", <<>>),
   Line("Encoding", <<"json">>),
   Line("Encoding", <<"Text">>),
   Line("Encoding", <<"native">>),
   Line("Encoding", <<"xml">>),
   Line("Write-Timeout", <<"900ms">>),
   Line("Write-Timeout", <<"foobar">>)}

\* blocks: up to MaxDirectives lines, no line twice
Injective(b) == \A i, j \in 1..Len(b) : b[i] = b[j] => i = j
Blocks == UNION {{b \in [1..n -> Lines] : Injective(b)} : n \in 0..MaxDirectives}

NoCfg == [conf |-> ParseStart.conf, enc |-> "nil", err |-> NoErr, done |-> FALSE]

InitCfg ==
  /\ InitH /\ InitE
  /\ gh.enc = "json"
  /\ cfgIn \in Blocks
  /\ cfgOut = NoCfg

\* setup calls parseConfig on the block
RunParseConfig ==
  /\ ~cfgOut.done
  /\ cfgOut' = parseConfig(cfgIn)
  /\ UNCHANGED <<cfgIn, hvars, evars>>

NextCfg == RunParseConfig

SpecCfg == InitCfg /\ [][NextCfg]_vars

\* ------------------------------------------------------------------------
\* setup, then one invocation on the handler it registered (SpecSetup)
\* ------------------------------------------------------------------------
\* im.GetTag: the entry tag the muxer resolves a tag name to
GetTag(name) == CASE name = "dns" -> 1 [] name = "custom" -> 2 [] OTHER -> 0

\* no handler is registered
NoHandler == [enc |-> "nil", tag |-> 0]
Built == gh # NoHandler

SetupLines ==
  {Line("Ingest-Secret", <<"testing">>),
   Line("Cleartext-Target", <<"192.168.1.1:4024">>),
   Line("Tag", <<"custom">>),
   Line("Tag", <<"dns">>),
   Line("Tag", <<"!bad">>),
   Line("Encoding", <<"Text">>)}
SetupBlocks ==
  UNION {{b \in [1..n -> SetupLines] : Injective(b)} : n \in 0..MaxDirectives}

InitSetup ==
  /\ InitTxn /\ InitE
  /\ gh = NoHandler
  /\ cfgIn \in SetupBlocks
  /\ cfgOut = NoCfg

\* setup: parseConfig, the muxer is started (up) or not, the handler registered
Setup(up) ==
  /\ ~cfgOut.done
  /\ cfgOut' = parseConfig(cfgIn)
  /\ gh' = IF cfgOut'.err = NoErr /\ up
             THEN [enc |-> cfgOut'.enc, tag |-> GetTag(cfgOut'.conf.Tag)]
             ELSE gh
  /\ UNCHANGED <<cfgIn, evars, now, pc, r, ts, is, calls, rwLog, wret, c, err, lerr,
                 dret, ser, bbs, sent, ret>>

NextSetup ==
  \/ \E up \in BOOLEAN : Setup(up)
  \/ /\ Built
     /\ \E t \in {"t1"} :
          \/ \E req \in PairRequests : Call(t, req) /\ UNCHANGED <<evars, cvars>>
          \/ \E m \in PairResponses, res \in {NoErr, RwErr} :
               /\ Len(calls[t]) < PairWrites
               /\ DownWriteMsg(t, m, res) /\ UNCHANGED <<evars, cvars>>
          \/ \E b \in RawBytes, res \in {NoErr, RwErr} :
               /\ Len(calls[t]) < PairWrites
               /\ DownWrite(t, b, res) /\ UNCHANGED <<evars, cvars>>
          \/ \E code \in Rcodes, e \in DownErrs \cup {NoErr} :
               DownReturn(t, code, e) /\ UNCHANGED <<evars, cvars>>
          \/ \E fails \in SUBSET (1..MaxQ), packOk \in BOOLEAN :
               EncodeStep(t, fails, packOk) /\ UNCHANGED <<evars, cvars>>
          \/ \E res \in {NoErr, IngestErr} : Submit(t, res) /\ UNCHANGED <<evars, cvars>>
          \/ Return(t) /\ UNCHANGED <<evars, cvars>>

SpecSetup == InitSetup /\ [][NextSetup]_vars

\* ------------------------------------------------------------------------
\* Properties of ServeDNS (Spec)
\* ------------------------------------------------------------------------
Finished(t) == pc[t] = "done"
Encoded(t) == pc[t] \in {"submit", "done"}
\* some im.Write call of t was rejected
Rejected(t) == \E i \in 1..Len(sent[t]) : sent[t][i].res # NoErr

\* C1: whatever the mode and whatever encoding and submission did, ServeDNS
\* returns the status code and the error Next.ServeDNS returned.
C1_ReturnsDownstreamResult ==
  \A t \in Txn : Finished(t) => ret[t] = dret[t]

\* a finished invocation whose submission was rejected while the downstream
\* chain had returned no error
C1_Witness ==
  \E t \in Txn : Finished(t) /\ Rejected(t) /\ dret[t] = [c |-> 0, err |-> NoErr]

\* C2 (as claimed): a rejected submission makes ServeDNS return a non-nil error.
C2_RejectionSurfaces ==
  \A t \in Txn : (Finished(t) /\ Rejected(t)) => ret[t].err # NoErr

\* the questions the encoder of the transaction is given
EncodedQuestions(t) == IF err[t] # NoErr THEN r[t].Question ELSE is[t].q

\* C3: the im.Write calls of a transaction are a prefix of its Records, in
\* order; only the last call can have failed; a finished transaction sent
\* everything unless its last call failed.  An encoder's Record list has one
\* Record per question, at the question's index.
C3_SubmissionsArePrefix ==
  \A t \in Txn :
    /\ (Encoded(t) /\ gh.enc # "nil") => Len(bbs[t]) = Len(EncodedQuestions(t))
    /\ Len(sent[t]) <= Len(bbs[t])
    /\ \A i \in 1..Len(sent[t]) :
         /\ sent[t][i].e = Entry(ts[t], gh.tag, bbs[t][i])
         /\ i < Len(sent[t]) => sent[t][i].res = NoErr
    /\ (Finished(t) /\ ~Rejected(t)) => Len(sent[t]) = Len(bbs[t])

\* the first of two Records was rejected and the second never submitted
C3_Witness ==
  \E t \in Txn :
    Finished(t) /\ Len(bbs[t]) = 2 /\ Len(sent[t]) = 1 /\ sent[t][1].res # NoErr

\* two invocations with the same request and the same downstream behaviour
SameLow(t, u) ==
  /\ r[t] = r[u]
  /\ calls[t] = calls[u]
  /\ dret[t] = dret[u]

\* C6: two finished runs of ServeDNS with the same request and the same
\* downstream behaviour (the calls the chain made on its writer and the value
\* it returned) passed the same sequence of messages and raw bytes to the real
\* response writer and returned the same status code, whatever Marshal, Pack
\* and im.Write did in either run.
C6_ClientSeesNoAuditFailure ==
  \A t, u \in Txn :
    (Finished(t) /\ Finished(u) /\ SameLow(t, u)) =>
      /\ rwLog[t] = rwLog[u]
      /\ ret[t].c = ret[u].c

\* two finished runs with the same request and downstream behaviour, the
\* chain having written a response: one had a serialization failure and a
\* rejected submission, the other neither
C6_Witness ==
  \E t, u \in Txn :
    /\ Finished(t) /\ Finished(u) /\ SameLow(t, u)
    /\ \E i \in 1..Len(rwLog[t]) : rwLog[t][i].op = "WriteMsg"
    /\ Rejected(t) /\ (ser[t].fails # {} \/ ~ser[t].packOk)
    /\ ~Rejected(u) /\ ser[u].fails = {} /\ ser[u].packOk

\* the last message the downstream chain wrote, if any
WroteMsg(t) == \E i \in 1..Len(calls[t]) : calls[t][i].op = "WriteMsg"
LastMsg(t) ==
  LET k == CHOOSE i \in 1..Len(calls[t]) :
             /\ calls[t][i].op = "WriteMsg"
             /\ \A j \in (i + 1)..Len(calls[t]) : calls[t][j].op # "WriteMsg"
  IN calls[t][k].msg

\* C7 (as claimed): in native mode a transaction has one Record, the packing
\* of the message the downstream chain wrote through the introspector (taken
\* where the chain returned no error and packing succeeded).
C7_NativePacksResponse ==
  \A t \in Txn :
    (gh.enc = "nil" /\ Encoded(t) /\ WroteMsg(t) /\ err[t] = NoErr /\ ser[t].packOk) =>
      /\ Len(bbs[t]) = 1
      /\ bbs[t][1] = WireBytes(LastMsg(t))

\* the Records the same transaction has when no serialization fails
RecordsIfSound(t) ==
  Records(gh.enc, ts[t], LocalAddr(t), RemoteAddr(t), r[t], is[t], err[t], {}, TRUE)
\* the Records whose serialization failed, and the error of that failure
FailedRecords(t) == IF gh.enc = "nil" THEN (IF ser[t].packOk THEN {} ELSE {1}) ELSE ser[t].fails
SerializationErr == IF gh.enc = "nil" THEN PackErr ELSE MarshalErr

\* C9 (as claimed): a serialization failure keeps the number of Records, makes
\* the failing Record a diagnostic that embeds the serialization error, and
\* leaves the result of ServeDNS alone.
C9_SerializationFailureRecovered ==
  \A t \in Txn :
    Encoded(t) =>
      /\ Len(bbs[t]) = Len(RecordsIfSound(t))
      /\ \A i \in FailedRecords(t) :
           bbs[t][i].form = "diag" /\ bbs[t][i].Error = SerializationErr
      /\ Finished(t) => ret[t] = dret[t]

\* C15: on a handler with an encoder, when Next.ServeDNS returned an error the
\* Records are EncodeError's for the request r and that error, one per question
\* of r, whatever the introspector captured; when it returned none they are
\* Encode's for the captured questions and answers, one per captured question.
C15_RoutedByDownstreamError ==
  \A t \in Txn :
    (Encoded(t) /\ gh.enc # "nil") =>
      IF dret[t].err # NoErr
        THEN /\ Len(bbs[t]) = Len(r[t].Question)
             /\ bbs[t] = EncodeError(gh.enc, ts[t], LocalAddr(t), RemoteAddr(t), r[t],
                                      dret[t].err, ser[t].fails)
        ELSE /\ Len(bbs[t]) = Len(is[t].q)
             /\ bbs[t] = Encode(gh.enc, ts[t], LocalAddr(t), RemoteAddr(t), is[t].q, is[t].a,
                                 ser[t].fails)

\* the chain wrote a response with other questions than the request's and then
\* returned an error
C15_Witness ==
  \E t \in Txn :
    /\ Encoded(t) /\ gh.enc # "nil" /\ dret[t].err # NoErr
    /\ WroteMsg(t) /\ Len(is[t].q) # Len(r[t].Question) /\ Len(bbs[t]) > 0

\* the last call of the chain on its writer
LastCall(cs) == cs[Len(cs)]

\* C16: the wrapped writer has received exactly the calls made on the
\* introspector, with the same messages and bytes; each call returned what the
\* wrapped writer returned; and a Write call leaves the captured questions and
\* answers as they were.
C16_InterceptorTransparent ==
  /\ [](\A t \in Txn : rwLog[t] = calls[t] /\ wret[t].is = wret[t].rw)
  /\ [][\A t \in Txn :
          (Len(calls'[t]) = Len(calls[t]) + 1 /\ LastCall(calls'[t]).op = "Write")
            => is'[t] = is[t]]_vars

\* a WriteMsg and a Write were made, the last of them failing in the wrapped
\* writer
C16_Witness ==
  \E t \in Txn :
    /\ Len(calls[t]) = 2 /\ wret[t].rw = RwErr
    /\ \E i, j \in 1..2 : calls[t][i].op = "WriteMsg" /\ calls[t][j].op = "Write"

\* C17: the captured questions and answers are those of the last WriteMsg call
\* made, whatever the wrapped writer returned, and empty when none was made.
C17_LastWriteMsgWins ==
  \A t \in Txn :
    IF WroteMsg(t)
      THEN is[t].q = LastMsg(t).Question /\ is[t].a = LastMsg(t).Answer
      ELSE is[t].q = <<>> /\ is[t].a = <<>>

\* two WriteMsg calls with different messages, the second failing in the
\* wrapped writer
C17_Witness ==
  \E t \in Txn :
    /\ Len(calls[t]) = 2 /\ wret[t].rw = RwErr
    /\ calls[t][1].op = "WriteMsg" /\ calls[t][2].op = "WriteMsg"
    /\ calls[t][1].msg # calls[t][2].msg

\* the chain made no WriteMsg call, or its last one had no question section
NothingCaptured(t) == ~WroteMsg(t) \/ LastMsg(t).Question = <<>>

\* C22: on a handler with an encoder, when Next.ServeDNS returned no error and
\* the chain made no WriteMsg call (no call at all, or Write calls only), or
\* its last WriteMsg call had an empty question section, the invocation has
\* no Records, makes no im.Write call, and returns the chain's status code
\* with a nil error.
C22_NothingCapturedNothingSent ==
  \A t \in Txn :
    (gh.enc # "nil" /\ Encoded(t) /\ dret[t].err = NoErr /\ NothingCaptured(t)) =>
      /\ bbs[t] = <<>>
      /\ sent[t] = <<>>
      /\ Finished(t) => ret[t] = [c |-> dret[t].c, err |-> NoErr]

\* the request had two questions, the chain wrote raw bytes only and returned
\* SERVFAIL with no error: the invocation finished with nothing submitted
C22_Witness ==
  \E t \in Txn :
    /\ gh.enc # "nil" /\ Finished(t) /\ dret[t] = [c |-> 2, err |-> NoErr]
    /\ Len(r[t].Question) = 2
    /\ Len(calls[t]) > 0 /\ ~WroteMsg(t)
    /\ sent[t] = <<>>

\* C20: a call reaches the real response writer only while the invocation is
\* inside Next.ServeDNS, before bbs is built and before any im.Write call; once
\* the encoder has run, the real writer receives nothing more.
C20_ResponseBeforeDelivery ==
  /\ [][\A t \in Txn : rwLog'[t] # rwLog[t] =>
          (pc[t] = "downstream" /\ pc'[t] = "downstream" /\ sent'[t] = <<>> /\ dret'[t] = NoRet)]_vars
  /\ [][\A t \in Txn : Encoded(t) => rwLog'[t] = rwLog[t]]_vars

\* two writes reached the real writer and two Records were submitted after them
C20_Witness ==
  \E t \in Txn : Finished(t) /\ Len(rwLog[t]) = 2 /\ Len(sent[t]) = 2 /\ ~Rejected(t)

\* ------------------------------------------------------------------------
\* Properties of one invocation whose calls return (SpecFair)
\* ------------------------------------------------------------------------
\* the terminal states: every Record submitted, or the last im.Write call failed
\* and it was the first to fail
Done(t) == Finished(t) /\ ~Rejected(t) /\ Len(sent[t]) = Len(bbs[t])
Failed(t) ==
  /\ Finished(t) /\ Rejected(t)
  /\ \A i \in 1..Len(sent[t]) : sent[t][i].res # NoErr <=> i = Len(sent[t])

\* C19: Next.ServeDNS returns to an invocation only once, while the invocation
\* waits for it, and the writes of the chain all went through the
\* introspector; an invocation that has begun reaches Done or Failed; and once
\* it has, nothing of it changes any more.
C19_RunsOnceToTerminal ==
  /\ [][\A t \in Txn : dret'[t] # dret[t] => (dret[t].c = -1 /\ pc[t] = "downstream")]_vars
  /\ [](\A t \in Txn : rwLog[t] = calls[t] /\ (Finished(t) => Done(t) \/ Failed(t)))
  /\ \A t \in {"t1"} : (pc[t] # "idle") ~> (Done(t) \/ Failed(t))
  /\ [][\A t \in Txn : Finished(t) =>
          /\ pc'[t] = pc[t] /\ sent'[t] = sent[t] /\ bbs'[t] = bbs[t] /\ ret'[t] = ret[t]
          /\ calls'[t] = calls[t] /\ rwLog'[t] = rwLog[t] /\ dret'[t] = dret[t]]_vars

\* an invocation whose chain returned an error ended in Done with two Records
C19_Witness ==
  \E t \in Txn : Done(t) /\ Len(sent[t]) = 2 /\ dret[t].err # NoErr

\* ------------------------------------------------------------------------
\* Properties of concurrent invocations (SpecIso)
\* ------------------------------------------------------------------------
\* the names in the request of t and in what its introspector captured
OwnNames(t) ==
  {r[t].Question[i].Name : i \in 1..Len(r[t].Question)}
    \cup {is[t].q[i].Name : i \in 1..Len(is[t].q)}
    \cup {is[t].a[i].Name : i \in 1..Len(is[t].a)}
\* bb names a question or answer that is not one of t's
NamesForeign(t, bb) ==
  \E k \in 1..Len(bb.body) : bb.body[k] \in QNames \ OwnNames(t)
\* bb is stamped with the timestamp and the endpoints of t, where it has any
OwnStamp(t, bb) ==
  IF bb.form \in {"text", "json"}
    THEN /\ bb.TS = ts[t] /\ bb.Remote = RemoteAddr(t).addr
         /\ bb.Local = LocalAddr(t).addr /\ bb.Proto = LocalAddr(t).network
    ELSE bb.form = "diag" /\ bb.Error = MarshalErr => bb.TS = ts[t]

HasBase(bb) ==
  /\ bb.TS = encIn.ts
  /\ bb.Proto = LocalAddr(encIn.t).network
  /\ bb.Local = LocalAddr(encIn.t).addr
  /\ bb.Remote = RemoteAddr(encIn.t).addr

\* bb describes the resource record rr / the bare question q, in the given mode
DescribesAnswer(bb, rr) ==
  /\ HasBase(bb)
  /\ \/ bb.form = "text" /\ gh.enc = "text" /\ bb.body = RRString(rr)
     \/ bb.form = "json" /\ gh.enc = "json" /\ bb.body = <<"Question">> \o RRWire(rr)
DescribesQuestion(bb, q) ==
  /\ HasBase(bb)
  /\ \/ bb.form = "text" /\ gh.enc = "text" /\ bb.body = QString(q)
     \/ bb.form = "json" /\ gh.enc = "json" /\ bb.body = <<"Question", "Hdr">> \o QWire(q)
\* bb is the diagnostic line of a failed json.Marshal
IsMarshalDiag(bb) ==
  bb.form = "diag" /\ bb.TS = encIn.ts /\ bb.Error = MarshalErr

\* Record i of Encode is about the answer / the question at index i
PairedAt(i) ==
  IF i <= Len(encIn.a) THEN DescribesAnswer(encOut.bb[i], encIn.a[i])
  ELSE DescribesQuestion(encOut.bb[i], encIn.q[i])

\* C4 (as claimed): Encode returns len(q) Records and Record i describes a[i]
\* when there is an answer at i, the bare question q[i] otherwise.
C4_OneRecordPerQuestion ==
  encOut.op = "Encode" =>
    /\ Len(encOut.bb) = Len(encIn.q)
    /\ \A i \in 1..Len(encIn.q) : PairedAt(i)

\* C4 (amended): the same, except that in json mode a Record whose json.Marshal
\* call failed is the diagnostic line of that failure.
C4_OneRecordPerQuestionOrDiag ==
  encOut.op = "Encode" =>
    /\ Len(encOut.bb) = Len(encIn.q)
    /\ \A i \in 1..Len(encIn.q) :
         IF i \in encIn.fails THEN IsMarshalDiag(encOut.bb[i]) ELSE PairedAt(i)

\* Encode ran on two questions and one answer: an answer Record, then a
\* question Record
C4_Witness ==
  /\ encOut.op = "Encode"
  /\ Len(encIn.q) = 2 /\ Len(encIn.a) = 1 /\ encIn.fails = {}
  /\ encIn.q[1] # encIn.q[2]
  /\ Len(encOut.bb) = 2

\* the answers Encode is given past the last question
Surplus == (Len(encIn.q) + 1)..Len(encIn.a)
\* the answer at index i is not the record asked for by question i
Mismatched(i) ==
  encIn.a[i].Name # encIn.q[i].Name \/ encIn.a[i].Rrtype # encIn.q[i].Qtype

\* C21: Encode returns no more Records than questions; an answer past the last
\* question is described by no Record, unless the same resource record also
\* stands at the Record's own index; and Record i describes the answer at
\* index i, when there is one and its json.Marshal call did not fail, whether
\* or not that answer has the name and type of question i.
C21_SurplusAnswersDropped ==
  encOut.op = "Encode" =>
    /\ Len(encOut.bb) = Len(encIn.q)
    /\ \A j \in Surplus : \A i \in 1..Len(encOut.bb) :
         DescribesAnswer(encOut.bb[i], encIn.a[j]) => encIn.a[i] = encIn.a[j]
    /\ \A i \in 1..Len(encIn.q) :
         (i <= Len(encIn.a) /\ i \notin encIn.fails) =>
           /\ DescribesAnswer(encOut.bb[i], encIn.a[i])
           /\ ~DescribesQuestion(encOut.bb[i], encIn.q[i])

\* Encode ran on one question and a chain of three answers, the first a CNAME
\* record and the others different from it
C21_Witness ==
  /\ encOut.op = "Encode" /\ encIn.fails = {}
  /\ Len(encIn.q) = 1 /\ Len(encIn.a) = 3 /\ Len(encOut.bb) = 1
  /\ encIn.a[1].Rrtype = "CNAME" /\ Mismatched(1)
  /\ encIn.a[2] # encIn.a[1] /\ encIn.a[3] # encIn.a[1]

\* C5 (as claimed): EncodeError returns one Record per question of the
\* request, Record i about question i, each embedding the downstream error.
C5_ErrorRecordsEmbedError ==
  encOut.op = "EncodeError" =>
    /\ Len(encOut.bb) = Len(encIn.q)
    /\ \A i \in 1..Len(encIn.q) :
         /\ HasBase(encOut.bb[i])
         /\ \/ encOut.bb[i].body = QString(encIn.q[i])
            \/ encOut.bb[i].body = <<"Question">> \o QWire(encIn.q[i])
         /\ encOut.bb[i].Error = encIn.e

\* ------------------------------------------------------------------------
\* Properties of parseConfig (SpecCfg)
\* ------------------------------------------------------------------------
IsEncodingLine(l) == ToLower(l.name) = "encoding"
IsOtherLine(l) == ~IsEncodingLine(l)
IsTargetLine(l) == ToLower(l.name) \in {"cleartext-target", "ciphertext-target"}
EncodingLines(b) == SelectSeq(b, IsEncodingLine)
\* the block is acceptable once its encoding lines are left out
SoundButEncoding(b) == parseConfig(SelectSeq(b, IsOtherLine)).err = NoErr
\* the mode an encoding value names; native is the handler with a nil encoder
ModeNamed(v) ==
  LET t == TrimSpace(ToLower(v)) IN
  CASE t = "text" -> "text" [] t = "json" -> "json" [] t = "native" -> "nil" [] OTHER -> "none"

\* C8 (as claimed): text, json and native are accepted and select that mode, any
\* other value is an error, and without the directive the mode is json.
C8_EncodingSelectsMode ==
  (cfgOut.done /\ SoundButEncoding(cfgIn)) =>
    LET el == EncodingLines(cfgIn) IN
    IF el = <<>> THEN cfgOut.err = NoErr /\ cfgOut.enc = "json"
    ELSE IF \A i \in 1..Len(el) : ModeNamed(el[i].args[1]) # "none"
      THEN cfgOut.err = NoErr /\ cfgOut.enc = ModeNamed(el[Len(el)].args[1])
      ELSE cfgOut.err # NoErr

GivesTarget(b) == \E i \in 1..Len(b) : IsTargetLine(b[i])
GivesSecret(b) == \E i \in 1..Len(b) : ToLower(b[i].name) = "ingest-secret"
GivesBadTarget(b) ==
  \E i \in 1..Len(b) : IsTargetLine(b[i]) /\ SplitHostPort(b[i].args[1]) # NoErr
\* the error standing when the inconsistent-cache validation is over
ErrAfterCacheCheck(b) ==
  LET st == ParseLines(ParseStart, b) IN IF st.done THEN st.err ELSE CheckCache(st).err

\* C10: a block without a target, without a secret, or with a target that is
\* no host:port pair is rejected, whatever else it holds and in whatever order;
\* and an error standing after the cache validation is still returned after
\* the target and secret validations.
C10_MissingOrBadRequiredRejected ==
  cfgOut.done =>
    /\ (~GivesTarget(cfgIn) \/ ~GivesSecret(cfgIn) \/ GivesBadTarget(cfgIn))
         => cfgOut.err # NoErr
    /\ ErrAfterCacheCheck(cfgIn) # NoErr => cfgOut.err # NoErr

\* a parsed block that gives a secret and other directives but no target, and
\* one whose only fault is a size bound without a path
C10_Witness ==
  /\ cfgOut.done /\ cfgOut.err # NoErr
  /\ \/ GivesSecret(cfgIn) /\ ~GivesTarget(cfgIn) /\ Len(cfgIn) = 3
     \/ /\ GivesSecret(cfgIn) /\ GivesTarget(cfgIn) /\ ~GivesBadTarget(cfgIn)
        /\ cfgOut.conf.Max_Ingest_Cache > 0 /\ cfgOut.conf.Ingest_Cache_Path = ""

\* a max-cache-size-mb line, and one whose value strconv.Atoi refuses or is negative
IsSizeLine(l) == ToLower(l.name) = "max-cache-size-mb" /\ l.args # <<>>
IsBadSizeLine(l) ==
  IsSizeLine(l) /\ (Atoi(l.args[1]).err # NoErr \/ Atoi(l.args[1]).v < 0)
IsGoodSizeLine(l) == IsSizeLine(l) /\ ~IsBadSizeLine(l)
IsPathLine(l) == ToLower(l.name) = "ingest-cache-path" /\ l.args # <<>>

\* C11 (as claimed): a block with a max-cache-size-mb line whose value is
\* negative or no integer is rejected, wherever the line stands.
C11_BadCacheSizeRejected ==
  (cfgOut.done /\ \E i \in 1..Len(cfgIn) : IsBadSizeLine(cfgIn[i])) =>
    cfgOut.err # NoErr

\* C12 (as claimed): a block that gives a size bound with an accepted value
\* and no ingest-cache-path is rejected, in any order of its lines; in a block
\* that gives the path the cache validation raises no error.
C12_SizeNeedsPath ==
  cfgOut.done =>
    /\ ( /\ \E i \in 1..Len(cfgIn) : IsGoodSizeLine(cfgIn[i])
         /\ \A i \in 1..Len(cfgIn) : ~IsPathLine(cfgIn[i]) )
         => cfgOut.err # NoErr
    /\ ( /\ \E i \in 1..Len(cfgIn) : IsPathLine(cfgIn[i])
         /\ ~ParseLines(ParseStart, cfgIn).done )
         => CheckCache(ParseLines(ParseStart, cfgIn)) = ParseLines(ParseStart, cfgIn)

\* time.ParseDuration accepts the value
ValidDuration(v) == v \in {"900ms"}
IsTimeoutLine(l) == ToLower(l.name) = "write-timeout" /\ l.args # <<>>
IsNoTimeoutLine(l) == ~IsTimeoutLine(l)
\* the block is acceptable once its Write-Timeout lines are left out
SoundButTimeout(b) == parseConfig(SelectSeq(b, IsNoTimeoutLine)).err = NoErr

\* C13 (as claimed): a block that is acceptable but for its Write-Timeout
\* lines is accepted when every such value is a valid duration, and rejected
\* when one is not.
C13_WriteTimeoutParsed ==
  (cfgOut.done /\ SoundButTimeout(cfgIn) /\ \E i \in 1..Len(cfgIn) : IsTimeoutLine(cfgIn[i])) =>
    IF \A i \in 1..Len(cfgIn) : IsTimeoutLine(cfgIn[i]) => ValidDuration(cfgIn[i].args[1])
      THEN cfgOut.err = NoErr
      ELSE cfgOut.err # NoErr

\* ------------------------------------------------------------------------
\* Properties of setup and the handler it registers (SpecSetup)
\* ------------------------------------------------------------------------
IsTagLine(l) == ToLower(l.name) = "tag"
TagLines(b) == SelectSeq(b, IsTagLine)
\* every line of the block is accepted by the loop of parseConfig
LinesAccepted(b) == ~ParseLines(ParseStart, b).done

\* C14: a block without a tag line that gives a secret and a target, and whose
\* lines are all accepted, is accepted with the tag dns; an accepted block that
\* has tag lines has the tag of the last of them; the registered handler holds
\* the entry tag resolved from that tag, and every im.Write call of an
\* invocation is made with it.
C14_OneTagFromConfig ==
  cfgOut.done =>
    /\ (TagLines(cfgIn) = <<>> /\ GivesSecret(cfgIn) /\ GivesTarget(cfgIn) /\ LinesAccepted(cfgIn))
         => cfgOut.err = NoErr /\ cfgOut.conf.Tag = "dns"
    /\ (TagLines(cfgIn) # <<>> /\ cfgOut.err = NoErr)
         => /\ cfgOut.conf.Tag = TagLines(cfgIn)[Len(TagLines(cfgIn))].args[1]
            /\ CheckTag(cfgOut.conf.Tag) = NoErr
    /\ Built => cfgOut.err = NoErr /\ gh.tag = GetTag(cfgOut.conf.Tag)
    /\ \A t \in Txn : \A i \in 1..Len(sent[t]) : sent[t][i].e.Tag = GetTag(cfgOut.conf.Tag)

\* a block without a tag line was accepted and an invocation on its handler has
\* submitted a Record under the tag resolved from dns
C14_Witness ==
  /\ cfgOut.done /\ TagLines(cfgIn) = <<>> /\ Built
  /\ \E t \in Txn : Finished(t) /\ Len(sent[t]) > 0 /\ sent[t][1].e.Tag = GetTag("dns")

====
